---------------------------- MODULE Spec2Model ----------------------------
(***************************************************************************)
(* Model of economist_complete.py (class EconomistPodcastMaster): the      *)
(* chapter sequencing and splitting of split_economist_file, the retention *)
(* policy of archive_old_episodes, the feed built by generate_rss_feed and *)
(* the ordering of the stages in run_complete_workflow / git_push.         *)
(*                                                                         *)
(* Strings the code compares or searches are sequences of one-character    *)
(* strings, so that lower(), the substring tests and the lexicographic     *)
(* sorts are computed as Python computes them.                             *)
(***************************************************************************)
EXTENDS Integers, Sequences, FiniteSets, TLC

\* ------------------------------------------------------------------------
\* Bounds of the model
\* ------------------------------------------------------------------------
\* longest chapter list explored by SpecSeq
MaxChapters == 3
\* number of dated directories earlier runs may have left
MaxPast == 1
\* largest chapter position explored by SpecIdx
MaxIndex == 101

\* ------------------------------------------------------------------------
\* Program constants
\* ------------------------------------------------------------------------
\* chapters shorter than this many seconds are skipped (line 191)
MinDuration == 60
\* secondary sort key of a briefing chapter (line 170)
BriefingKey == 999999
\* width of the zero padded position in "{i:02d}" (line 196)
PadWidth == 2

\* ------------------------------------------------------------------------
\* Characters and strings
\* ------------------------------------------------------------------------
\* the characters used, in code point order (str comparison is by code point)
Alphabet ==
  << " ", "%", "-", ".", "/", "0", "1", "2", "3", "4", "5", "6", "7", "8", "9",
     "B", "C", "F", "L", "T", "W",
     "a", "b", "c", "d", "e", "f", "g", "h", "i", "k", "l", "m", "n", "o",
     "p", "r", "s", "t", "u", "w", "x" >>

Ord(c) == CHOOSE i \in 1..Len(Alphabet) : Alphabet[i] = c

\* str.lower() on one character
LowerChar(c) ==
  CASE c = "B" -> "b" [] c = "C" -> "c" [] c = "F" -> "f" [] c = "L" -> "l"
    [] c = "T" -> "t" [] c = "W" -> "w" [] OTHER -> c

\* str.lower()
Lower(s) == [i \in 1..Len(s) |-> LowerChar(s[i])]

\* the `in` operator on strings: pat occurs in s as a substring
Contains(s, pat) ==
  \E k \in 0..(Len(s) - Len(pat)) :
    \A i \in 1..Len(pat) : s[k + i] = pat[i]

\* str < str: lexicographic by code point, a proper prefix is smaller
RECURSIVE LessFrom(_, _, _)
LessFrom(s, t, i) ==
  IF i > Len(t) THEN FALSE
  ELSE IF i > Len(s) THEN TRUE
  ELSE IF s[i] = t[i] THEN LessFrom(s, t, i + 1)
  ELSE Ord(s[i]) < Ord(t[i])

StrLess(s, t) == LessFrom(s, t, 1)

\* Sorting a set of pairs <<string, value>> by the strings, which differ:
\* the values in ascending and in descending order of their strings.
RECURSIVE AscByStr(_)
AscByStr(K) ==
  IF K = {} THEN << >>
  ELSE LET m == CHOOSE x \in K : \A y \in K \ {x} : StrLess(x[1], y[1])
       IN  << m[2] >> \o AscByStr(K \ {m})

RECURSIVE DescByStr(_)
DescByStr(K) ==
  IF K = {} THEN << >>
  ELSE LET m == CHOOSE x \in K : \A y \in K \ {x} : StrLess(y[1], x[1])
       IN  << m[2] >> \o DescByStr(K \ {m})

\* the decimal digits of n >= 0, most significant first
RECURSIVE Digits(_)
Digits(n) ==
  IF n < 10 THEN << Alphabet[6 + n] >>
  ELSE Append(Digits(n \div 10), Alphabet[6 + (n % 10)])

RECURSIVE ZeroPad(_, _)
ZeroPad(s, w) == IF Len(s) >= w THEN s ELSE ZeroPad(<< "0" >> \o s, w)

\* f"{i:02d}"
Fmt02(i) == ZeroPad(Digits(i), PadWidth)

\* the keywords of get_sort_priority
KwWorld    == << "w","o","r","l","d"," ","t","h","i","s"," ","w","e","e","k" >>
KwLetter   == << "l","e","t","t","e","r" >>
KwBusiness == << "b","u","s","i","n","e","s","s" >>
KwFinance  == << "f","i","n","a","n","c","e" >>
KwEconomic == << "e","c","o","n","o","m","i","c" >>
KwBriefing == << "b","r","i","e","f","i","n","g" >>

\* The chapter titles (already sanitized) that the model draws from.  A
\* title is kept as one value; Chars gives its characters.
Titles ==
  { "The World This Week", "Letters", "Business", "Finance", "Briefing",
    "Leaders", "Business briefing" }

Chars(title) ==
  CASE title = "The World This Week" ->
         << "T","h","e"," ","W","o","r","l","d"," ","T","h","i","s"," ","W","e","e","k" >>
    [] title = "Letters"  -> << "L","e","t","t","e","r","s" >>
    [] title = "Business" -> << "B","u","s","i","n","e","s","s" >>
    [] title = "Finance"  -> << "F","i","n","a","n","c","e" >>
    [] title = "Briefing" -> << "B","r","i","e","f","i","n","g" >>
    [] title = "Leaders"  -> << "L","e","a","d","e","r","s" >>
    [] title = "Business briefing" ->
         << "B","u","s","i","n","e","s","s"," ","b","r","i","e","f","i","n","g" >>

\* chapter durations in seconds that the model draws from
Durations == { 50, 90 }

\* ------------------------------------------------------------------------
\* split_economist_file: reading, sequencing and splitting the chapters
\* ------------------------------------------------------------------------
\* The CHAP frames of a file are a sequence of <<title, duration>>; frames
\* follow one another in the audio, so a frame starts where the previous
\* one ends.
RECURSIVE StartOf(_, _)
StartOf(frames, k) == IF k = 1 THEN 0 ELSE StartOf(frames, k - 1) + frames[k - 1][2]

\* chapter_info as built by the loop of lines 125-144
ReadChapters(frames) ==
  [k \in 1..Len(frames) |->
     [start_time |-> StartOf(frames, k),
      duration   |-> frames[k][2],
      title      |-> frames[k][1]]]

\* the rule order of a mutant that tests 'briefing' before 'business'
get_sort_priority_briefing_first(chapter) ==
  LET title_lower == Lower(Chars(chapter.title))
      duration == chapter.duration
  IN  IF Contains(title_lower, KwWorld) THEN << 1, 0 >>
      ELSE IF Contains(title_lower, KwLetter) THEN << 2, 0 >>
      ELSE IF Contains(title_lower, KwBriefing) THEN << 6, BriefingKey >>
      ELSE IF Contains(title_lower, KwBusiness) THEN << 3, duration >>
      ELSE IF Contains(title_lower, KwFinance) \/ Contains(title_lower, KwEconomic)
           THEN << 4, duration >>
      ELSE << 5, duration >>

get_sort_priority(chapter) ==
  LET title_lower == Lower(Chars(chapter.title))
      duration == chapter.duration
  IN  IF Contains(title_lower, KwWorld) THEN << 1, 0 >>
      ELSE IF Contains(title_lower, KwLetter) THEN << 2, 0 >>
      ELSE IF Contains(title_lower, KwBusiness) THEN << 3, duration >>
      ELSE IF Contains(title_lower, KwFinance) \/ Contains(title_lower, KwEconomic)
           THEN << 4, duration >>
      ELSE IF Contains(title_lower, KwBriefing) THEN << 6, BriefingKey >>
      ELSE << 5, duration >>

\* tuple comparison of two keys
KeyLess(a, b) == a[1] < b[1] \/ (a[1] = b[1] /\ a[2] < b[2])

\* list.sort(key=...) computes the key of every element once, then sorts
\* the elements by their keys, stably: an element goes after every element
\* already placed whose key is not greater than its own.
Decorate(info) == [k \in 1..Len(info) |-> << get_sort_priority(info[k]), info[k] >>]

RECURSIVE InsertStable(_, _)
InsertStable(sorted, x) ==
  IF sorted = << >> THEN << x >>
  ELSE IF KeyLess(x[1], sorted[Len(sorted)][1])
       THEN Append(InsertStable(SubSeq(sorted, 1, Len(sorted) - 1), x),
                   sorted[Len(sorted)])
       ELSE Append(sorted, x)

RECURSIVE SortDecorated(_, _)
SortDecorated(pairs, n) ==
  IF n = 0 THEN << >>
  ELSE InsertStable(SortDecorated(pairs, n - 1), pairs[n])

\* chapter_info.sort(key=get_sort_priority) (line 175)
SortChapters(info) ==
  LET sorted == SortDecorated(Decorate(info), Len(info))
  IN  [k \in 1..Len(info) |-> sorted[k][2]]

\* ------------------------------------------------------------------------
\* The directory tree
\* ------------------------------------------------------------------------
\* A directory is a function from file names to file contents.  A content
\* records what the bytes are: which source file they come from and which
\* part of it (start, dur); dur stands for the size os.path.getsize returns.
EmptyDir == << >>

Put(dir, name, content) ==
  [n \in (DOMAIN dir) \cup {name} |-> IF n = name THEN content ELSE dir[n]]

Remove(dir, name) == [n \in (DOMAIN dir) \ {name} |-> dir[n]]

\* A file name is kept as <<kind, position, text>>; FileStr gives the string
\* it stands for.
Ext == << ".", "m", "p", "3" >>

EndsWith(s, suf) ==
  /\ Len(s) >= Len(suf)
  /\ SubSeq(s, Len(s) - Len(suf) + 1, Len(s)) = suf

\* "original.mp3" (line 107)
OriginalName == << "original", 0, "" >>

\* "00 - Chapter List.txt" (line 215)
SummaryName == << "summary", 0, "" >>

\* f"{i:02d} - {chapter['title']}.mp3" (line 196)
SegName(i, title) == << "segment", i, title >>

\* os.path.basename(input_file) (line 118)
BaseName(src) == << "source", 0, src >>

Sep == << " ", "-", " " >>

FileStr(name) ==
  CASE name[1] = "segment"  -> Fmt02(name[2]) \o Sep \o Chars(name[3]) \o Ext
    [] name[1] = "original" -> << "o","r","i","g","i","n","a","l" >> \o Ext
    [] name[1] = "source"   -> << name[3] >> \o Ext
    [] name[1] = "summary"  ->
         << "0","0"," ","-"," ","C","h","a","p","t","e","r"," ","L","i","s","t",
            ".","t","x","t" >>

\* the source files the model knows: a.mp3 and b.mp3
Sources == { "a", "b" }

\* length in seconds of a whole source file
SourceLen == 180

Whole(src) ==
  [kind |-> "original", src |-> src, start |-> 0, dur |-> SourceLen, lines |-> << >>]

Segment(src, chapter) ==
  [kind |-> "segment", src |-> src, start |-> chapter.start_time,
   dur |-> chapter.duration, lines |-> << >>]

Manifest(src, names) ==
  [kind |-> "manifest", src |-> src, start |-> 0, dur |-> 0, lines |-> names]

\* The days of the model: earlier runs took place on the days 1..MaxPast,
\* this run starts on the day after and may see one midnight pass.
Today == MaxPast + 1
Days == 1..(Today + 1)

\* datetime.now().strftime("%Y-%m-%d") on day d of the modelled month
DateStr(d) == << "2","0","2","4","-","0","1","-" >> \o ZeroPad(Digits(d), 2)

\* A directory Economist_<token> is named by its token: a day, or 0 for
\* Economist_old, whose token is no date.
OldToken == 0
Tokens == Days \cup { OldToken }
TokenStr(t) == IF t = OldToken THEN << "o", "l", "d" >> ELSE DateStr(t)

\* the CHAP frames the two source files carry when they have chapters
FramesOf(src) ==
  IF src = "a"
  THEN << << "Business", 50 >>, << "Letters", 90 >> >>
  ELSE << << "Leaders", 90 >>, << "Letters", 90 >> >>

VARIABLES
  pc,        \* position in run_complete_workflow / git_push
  clock,     \* the day datetime.now() is in
  id3,       \* what ID3(file) yields for each source file
  base,      \* the source .mp3 files lying in base_folder
  live,      \* base_folder/Economist_<token>/ : token -> directory
  arch,      \* base_folder/Archive/Economist_<token>/ : token -> directory
  archOrig,  \* base_folder/Archive/original_<date>.mp3 : date -> content
  feed,      \* base_folder/feed.xml, and how often this run wrote it
  mp3_files, \* the list find_mp3_files returned
  queue,     \* the part of mp3_files the for loop has not reached yet
  splits,    \* one record per call of split_economist_file that returned
  archived,  \* whether archive_old_episodes ran, and how each relocation ended
  gitOps     \* whether a git command has been attempted

vars == << pc, clock, id3, base, live, arch, archOrig, feed, mp3_files, queue,
           splits, archived, gitOps >>

\* ------------------------------------------------------------------------
\* split_economist_file (lines 90-237)
\* ------------------------------------------------------------------------
\* The for loop of lines 189-212.  ok is the set of positions at which ffmpeg
\* produces its output file; elsewhere it leaves the directory as it is.
RECURSIVE SplitLoop(_, _, _, _, _, _)
SplitLoop(i, chapter_info, src, ok, files, chapter_files) ==
  IF i > Len(chapter_info)
  THEN [files |-> files, chapter_files |-> chapter_files]
  ELSE
    LET chapter == chapter_info[i]
        output_file == SegName(i, chapter.title)
        after == IF i \in ok THEN Put(files, output_file, Segment(src, chapter))
                 ELSE files
    IN  IF chapter.duration < MinDuration
        THEN SplitLoop(i + 1, chapter_info, src, ok, files, chapter_files)
        ELSE SplitLoop(i + 1, chapter_info, src, ok, after,
               IF output_file \in DOMAIN after
               THEN Append(chapter_files, [index |-> i, name |-> output_file])
               ELSE chapter_files)

Kept(chapter_info) ==
  { i \in 1..Len(chapter_info) : chapter_info[i].duration >= MinDuration }

\* shutil.move(temp_file, archive_original) takes the file out of the episode
\* directory (line 225); the mutant copies it
MoveAwayCopying(dir, name) == dir

MoveAway(dir, name) == Remove(dir, name)

\* chapter_info after line 175, for a file whose tags could be read
ChapterInfo(src) ==
  IF id3[src].ok THEN SortChapters(ReadChapters(id3[src].frames)) ELSE << >>

\* The result of one call: the directory tree it leaves and its record.
\* date_str, the date of datetime.now(), is kept as the day (see DateStr).
SplitResult(src, chapter_info, ok) ==
  LET date_str == clock
      out0 == IF date_str \in DOMAIN live THEN live[date_str] ELSE EmptyDir
      moved == Put(out0, OriginalName, Whole(src))
  IN  IF ~id3[src].ok
      THEN \* ID3(temp_file) raises; the except clause prints and returns
           [dir |-> moved, archOrig |-> archOrig,
            rec |-> [src |-> src, date |-> date_str, outcome |-> "error",
                     chapter_info |-> << >>, chapter_files |-> << >>]]
      ELSE IF id3[src].frames = << >>
      THEN \* no chapters: the file is renamed to its own name and kept
           [dir |-> Put(Remove(moved, OriginalName), BaseName(src), Whole(src)),
            archOrig |-> archOrig,
            rec |-> [src |-> src, date |-> date_str, outcome |-> "nochapters",
                     chapter_info |-> << >>, chapter_files |-> << >>]]
      ELSE
        LET loop == SplitLoop(1, chapter_info, src, ok, moved, << >>)
            names == [k \in 1..Len(loop.chapter_files) |-> loop.chapter_files[k].name]
            summary == Put(loop.files, SummaryName, Manifest(src, names))
        IN  [dir |-> MoveAway(summary, OriginalName),
             archOrig |-> Put(archOrig, date_str, Whole(src)),
             rec |-> [src |-> src, date |-> date_str, outcome |-> "split",
                      chapter_info |-> chapter_info,
                      chapter_files |-> loop.chapter_files]]

\* Where the for loop of run_complete_workflow goes after a call returned:
\* split_economist_file catches its exceptions, so the outcome plays no part.
\* In the mutant the exception leaves the function and ends the run.
AfterSplitRaising(rest, outcome) ==
  IF outcome = "error" THEN "done"
  ELSE IF rest = << >> THEN "archive" ELSE "split"

AfterSplit(rest, outcome) == IF rest = << >> THEN "archive" ELSE "split"

SplitEconomistFile ==
  /\ pc = "split"
  /\ queue # << >>
  /\ \E src \in { Head(queue) } :
       \E chapter_info \in { ChapterInfo(src) } :
         \E ok \in SUBSET Kept(chapter_info) :
           \E r \in { SplitResult(src, chapter_info, ok) } :
             /\ live' = Put(live, r.rec.date, r.dir)
             /\ archOrig' = r.archOrig
             /\ base' = base \ {src}
             /\ splits' = Append(splits, r.rec)
             /\ queue' = Tail(queue)
             /\ pc' = AfterSplit(Tail(queue), r.rec.outcome)
  /\ UNCHANGED << clock, id3, arch, feed, mp3_files, archived, gitOps >>

\* ------------------------------------------------------------------------
\* run_complete_workflow, step 1 (lines 51-62) and find_mp3_files
\* ------------------------------------------------------------------------
\* the orders in which os.listdir may return the files of a set
Orders(S) ==
  { q \in UNION { [1..n -> S] : n \in {Cardinality(S)} } :
      \A i, j \in DOMAIN q : i # j => q[i] # q[j] }

\* where run_complete_workflow goes once mp3_files is known (line 54)
AfterFind(files) == IF files # << >> THEN "split" ELSE "feed"

FindMp3Files ==
  /\ pc = "start"
  /\ \E q \in Orders(base) :
       /\ mp3_files' = q
       /\ queue' = q
       /\ pc' = AfterFind(q)
  /\ UNCHANGED << clock, id3, base, live, arch, archOrig, feed, splits,
                  archived, gitOps >>

\* ------------------------------------------------------------------------
\* archive_old_episodes (lines 239-267)
\* ------------------------------------------------------------------------
\* list.sort(reverse=True) of a set of names, as a sequence; the mutant
\* sorts ascending
SortAsc(S) == AscByStr({ << TokenStr(x), x >> : x \in S })

SortDesc(S) == DescByStr({ << TokenStr(x), x >> : x \in S })

Range(q) == { q[i] : i \in DOMAIN q }

\* What each relocation can come to: the rmtree of an existing destination
\* raises, or the move raises (after the rmtree, if any, was done), or the
\* directory is moved.  An exception is printed and the loop goes on.
Outcomes(folders) ==
  { o \in [folders -> { "moved", "rmtree_failed", "move_failed" }] :
      \A f \in folders : o[f] = "rmtree_failed" => f \in DOMAIN arch }

\* where run_complete_workflow goes after archive_old_episodes (line 65);
\* the mutant pushes before it generates the feed
AfterArchivePushing == "git_rm"

AfterArchive == "feed"

\* the folders the loop of lines 254-264 relocates: episode_folders[1:]
OldFolders(episode_folders) ==
  IF Len(episode_folders) > 1 THEN Range(Tail(episode_folders)) ELSE {}

ArchiveOldEpisodes ==
  /\ pc = "archive"
  /\ \E old \in { OldFolders(SortDesc(DOMAIN live)) } :
       \E o \in Outcomes(old) :
         \E moved \in { { g \in old : o[g] = "moved" } } :
           /\ live' = [f \in (DOMAIN live) \ moved |-> live[f]]
           /\ arch' = [f \in ((DOMAIN arch) \ { g \in old : o[g] = "move_failed" })
                               \cup moved |->
                         IF f \in moved THEN live[f] ELSE arch[f]]
           /\ archived' = [ran |-> TRUE, outcome |-> o]
  /\ pc' = AfterArchive
  /\ UNCHANGED << clock, id3, base, archOrig, feed, mp3_files, queue, splits,
                  gitOps >>

\* ------------------------------------------------------------------------
\* generate_rss_feed (lines 269-356)
\* ------------------------------------------------------------------------
\* str.replace(' ', '%20')
RECURSIVE Quote(_)
Quote(s) ==
  IF s = << >> THEN << >>
  ELSE (IF Head(s) = " " THEN << "%", "2", "0" >> ELSE << Head(s) >>)
       \o Quote(Tail(s))

\* mp3_file.replace('.mp3', ''): every name of the model holds '.mp3' once,
\* at its end
StripExt(s) == IF EndsWith(s, Ext) THEN SubSeq(s, 1, Len(s) - Len(Ext)) ELSE s

\* s.split(' - ', 1)[-1]: what follows the first ' - ', or s if there is none
AfterSep(s) ==
  IF Contains(s, Sep)
  THEN LET k == CHOOSE k \in 0..(Len(s) - 3) :
                  /\ SubSeq(s, k + 1, k + 3) = Sep
                  /\ \A j \in 0..(k - 1) : SubSeq(s, j + 1, j + 3) # Sep
       IN  SubSeq(s, k + 4, Len(s))
  ELSE s

\* datetime.strptime(date_part, "%Y-%m-%d") succeeds on the date tokens
IsDate(token) == \E d \in Days : TokenStr(token) = DateStr(d)

\* lines 337-341; the mutant always takes the clock
PubDateNow(token, now) == << "now", now >>

PubDate(token, now) ==
  IF IsDate(token) THEN << "noon", token >> ELSE << "now", now >>

\* One item of the document.  Its title, description, enclosure url and
\* guid are functions of the folder and file name (ItemTitle, ItemUrl); the
\* item keeps the two names, the length and the pubDate.
FeedItem(folder, mp3_file, content, now) ==
  [folder |-> folder, file |-> mp3_file, length |-> content.dur,
   pubDate |-> PubDate(folder, now)]

\* lines 318-320 and 325-327
ItemTitle(item) == TokenStr(item.folder) \o Sep \o AfterSep(StripExt(FileStr(item.file)))
ItemUrl(item) == Quote(TokenStr(item.folder)) \o << "/" >> \o Quote(FileStr(item.file))

\* [f for f in os.listdir(folder_path) if f.endswith('.mp3')]
FeedFiles(dir) == { f \in DOMAIN dir : EndsWith(FileStr(f), Ext) }

\* mp3_files.sort()
SortNames(S) == AscByStr({ << FileStr(x), x >> : x \in S })

RECURSIVE FolderItems(_, _, _, _)
FolderItems(tree, folder, names, now) ==
  IF names = << >> THEN << >>
  ELSE << FeedItem(folder, Head(names), tree[folder][Head(names)], now) >>
       \o FolderItems(tree, folder, Tail(names), now)

RECURSIVE FeedOf(_, _, _)
FeedOf(tree, episode_folders, now) ==
  IF episode_folders = << >> THEN << >>
  ELSE FolderItems(tree, Head(episode_folders),
                   SortNames(FeedFiles(tree[Head(episode_folders)])), now)
       \o FeedOf(tree, Tail(episode_folders), now)

\* the items of the document written, in document order
FeedItems(tree, now) == FeedOf(tree, SortDesc(DOMAIN tree), now)

\* where run_complete_workflow goes after generate_rss_feed (line 68)
AfterFeed == "git_rm"

GenerateRssFeed ==
  /\ pc = "feed"
  /\ feed' = [gen |-> feed.gen + 1, items |-> FeedItems(live, clock)]
  /\ pc' = AfterFeed
  /\ UNCHANGED << clock, id3, base, live, arch, archOrig, mp3_files, queue,
                  splits, archived, gitOps >>

\* ------------------------------------------------------------------------
\* git_push (lines 358-399)
\* ------------------------------------------------------------------------
\* The git commands work on the repository (index, commits, remote), never
\* on the files of the working tree.  A command run with check=True that
\* fails raises CalledProcessError, which ends git_push; so does a command
\* that cannot be started.  The exit status of the others is ignored.
\* where git_push goes after a command: on with a command whose status is
\* ignored or that succeeded, out otherwise
AfterGit(next, checked, result) ==
  IF result = "raised" \/ (checked /\ result = "failed") THEN "done" ELSE next

\* subprocess.run(['git', 'rm', '-r', '--cached', 'Archive'], ...), line 370
GitRmCached ==
  /\ pc = "git_rm"
  /\ gitOps' = TRUE
  /\ \E result \in { "ok", "failed", "raised" } :
       pc' = AfterGit("git_add", FALSE, result)
  /\ UNCHANGED << clock, id3, base, live, arch, archOrig, feed, mp3_files,
                  queue, splits, archived >>

\* subprocess.run(['git', 'add', '.'], check=True, ...), line 375
GitAdd ==
  /\ pc = "git_add"
  /\ gitOps' = TRUE
  /\ \E result \in { "ok", "failed", "raised" } :
       pc' = AfterGit("git_commit", TRUE, result)
  /\ UNCHANGED << clock, id3, base, live, arch, archOrig, feed, mp3_files,
                  queue, splits, archived >>

\* subprocess.run(['git', 'commit', '-m', commit_msg], ...), line 380
GitCommit ==
  /\ pc = "git_commit"
  /\ gitOps' = TRUE
  /\ \E result \in { "ok", "failed", "raised" } :
       pc' = AfterGit("git_push", FALSE, result)
  /\ UNCHANGED << clock, id3, base, live, arch, archOrig, feed, mp3_files,
                  queue, splits, archived >>

\* subprocess.run(['git', 'push'], check=True, ...), line 390
GitPush ==
  /\ pc = "git_push"
  /\ gitOps' = TRUE
  /\ \E result \in { "ok", "failed", "raised" } :
       pc' = AfterGit("done", TRUE, result)
  /\ UNCHANGED << clock, id3, base, live, arch, archOrig, feed, mp3_files,
                  queue, splits, archived >>

InGitPush == pc \in { "git_rm", "git_add", "git_commit", "git_push" }

\* the process is killed inside git_push
Crash ==
  /\ InGitPush
  /\ pc' = "crashed"
  /\ UNCHANGED << clock, id3, base, live, arch, archOrig, feed, mp3_files,
                  queue, splits, archived, gitOps >>

\* midnight passes while the files are being processed
Tick ==
  /\ pc = "split"
  /\ clock = Today
  /\ clock' = clock + 1
  /\ UNCHANGED << pc, id3, base, live, arch, archOrig, feed, mp3_files, queue,
                  splits, archived, gitOps >>

\* ------------------------------------------------------------------------
\* Initial states and specifications
\* ------------------------------------------------------------------------
\* a directory left by an earlier run, in the live tree and in the archive
OldLiveDir == Put(EmptyDir, SegName(1, "Leaders"),
                  [kind |-> "segment", src |-> "old", start |-> 0, dur |-> 90, lines |-> << >>])
OldArchDir == Put(EmptyDir, SegName(1, "Letters"),
                  [kind |-> "segment", src |-> "arc", start |-> 0, dur |-> 90, lines |-> << >>])

\* what ID3() may yield for a source file: an exception, no CHAP frame, or
\* the frames of the file
TagsOf(src) ==
  { [ok |-> FALSE, frames |-> << >>],
    [ok |-> TRUE, frames |-> << >>],
    [ok |-> TRUE, frames |-> FramesOf(src)] }

NotRun == [ran |-> FALSE, outcome |-> EmptyDir]

\* After __init__: any tree earlier runs and the user may have left.  The
\* directories of earlier runs carry dates up to today; those of past days
\* may have a namesake in the archive.
Init ==
  /\ pc = "start"
  /\ clock = Today
  /\ base \in SUBSET Sources
  /\ id3 \in { t \in [Sources -> UNION { TagsOf(s) : s \in Sources }] :
                 \A s \in Sources :
                   /\ t[s] \in TagsOf(s)
                   /\ s \notin base => t[s] = [ok |-> TRUE, frames |-> FramesOf(s)] }
  /\ \E D \in SUBSET ((1..Today) \cup { OldToken }) :
       /\ live = [t \in D |-> OldLiveDir]
       /\ \E A \in SUBSET (D \ { Today, OldToken }) :
            arch = [t \in A |-> OldArchDir]
  /\ archOrig \in { EmptyDir, Put(EmptyDir, Today, Whole("old")) }
  /\ feed = [gen |-> 0, items |-> << >>]
  /\ mp3_files = << >>
  /\ queue = << >>
  /\ splits = << >>
  /\ archived = NotRun
  /\ gitOps = FALSE

Next ==
  \/ FindMp3Files
  \/ SplitEconomistFile
  \/ ArchiveOldEpisodes
  \/ GenerateRssFeed
  \/ GitRmCached
  \/ GitAdd
  \/ GitCommit
  \/ GitPush
  \/ Crash
  \/ Tick

Spec == Init /\ [][Next]_vars

\* --- the chapters of one file, drawn from every list of up to MaxChapters
\* frames: split_economist_file is called on a.mp3 in an empty tree
RECURSIVE FrameLists(_)
FrameLists(n) ==
  IF n = 0 THEN { << >> }
  ELSE LET shorter == FrameLists(n - 1)
       IN  shorter \cup
           { Append(l, << t, d >>) : l \in { x \in shorter : Len(x) = n - 1 },
                                     t \in Titles, d \in Durations }

InitSeq ==
  /\ pc = "split"
  /\ clock = Today
  /\ base = { "a" }
  /\ \E tags \in { [ok |-> FALSE, frames |-> << >>] }
                 \cup { [ok |-> TRUE, frames |-> l] : l \in FrameLists(MaxChapters) } :
       id3 = [s \in Sources |-> IF s = "a" THEN tags
                                ELSE [ok |-> TRUE, frames |-> FramesOf(s)]]
  /\ live = EmptyDir
  /\ arch = EmptyDir
  /\ archOrig = EmptyDir
  /\ feed = [gen |-> 0, items |-> << >>]
  /\ mp3_files = << "a" >>
  /\ queue = << "a" >>
  /\ splits = << >>
  /\ archived = NotRun
  /\ gitOps = FALSE

SpecSeq == InitSeq /\ [][SplitEconomistFile]_vars

\* --- generate_rss_feed on a tree whose one episode directory holds the
\* segment files of two chapter positions up to MaxIndex
InitIdx ==
  /\ pc = "feed"
  /\ clock = Today
  /\ base = {}
  /\ id3 = [s \in Sources |-> [ok |-> TRUE, frames |-> FramesOf(s)]]
  /\ \E i \in 1..MaxIndex : \E j \in (i + 1)..MaxIndex :
       live = Put(EmptyDir, Today,
                  Put(Put(EmptyDir, SegName(i, "Letters"),
                          [kind |-> "segment", src |-> "a", start |-> 0,
                           dur |-> 90, lines |-> << >>]),
                      SegName(j, "Leaders"),
                      [kind |-> "segment", src |-> "a", start |-> 90,
                       dur |-> 90, lines |-> << >>]))
  /\ arch = EmptyDir
  /\ archOrig = EmptyDir
  /\ feed = [gen |-> 0, items |-> << >>]
  /\ mp3_files = << >>
  /\ queue = << >>
  /\ splits = << >>
  /\ archived = NotRun
  /\ gitOps = FALSE

SpecIdx == InitIdx /\ [][GenerateRssFeed]_vars

\* ------------------------------------------------------------------------
\* Properties
\* ------------------------------------------------------------------------
Last(q) == q[Len(q)]

\* the pairs <<folder, file>> of the .mp3 files of the live tree
LiveMp3s == UNION { { << t, f >> : f \in FeedFiles(live[t]) } : t \in DOMAIN live }

\* C1: the indices in the names of the segment files written by one call of
\* split_economist_file are 1..k in the order the files were written, k
\* being the number of files: a skipped or failed chapter leaves no gap.
C1_IndicesContiguous ==
  \A n \in DOMAIN splits :
    \A k \in DOMAIN splits[n].chapter_files :
      splits[n].chapter_files[k].name[2] = k

\* The key the rule table of the claim gives a chapter: the first rule, in
\* the order world this week, letter, business, finance/economic, briefing,
\* whose keyword occurs in the lower-cased title; bucket 5 if none does.
C2Rules ==
  << [kws |-> { KwWorld }, bucket |-> 1, byDuration |-> FALSE],
     [kws |-> { KwLetter }, bucket |-> 2, byDuration |-> FALSE],
     [kws |-> { KwBusiness }, bucket |-> 3, byDuration |-> TRUE],
     [kws |-> { KwFinance, KwEconomic }, bucket |-> 4, byDuration |-> TRUE],
     [kws |-> { KwBriefing }, bucket |-> 6, byDuration |-> FALSE] >>

C2Key(chapter) ==
  LET t == Lower(Chars(chapter.title))
      hits == { r \in DOMAIN C2Rules : \E kw \in C2Rules[r].kws : Contains(t, kw) }
  IN  IF hits = {} THEN << 5, chapter.duration >>
      ELSE LET r == CHOOSE x \in hits : \A y \in hits : x <= y
           IN  << C2Rules[r].bucket,
                  IF C2Rules[r].byDuration THEN chapter.duration ELSE 0 >>

C2Sorted(inp, out) ==
  /\ Len(out) = Len(inp)
  /\ Range(out) = Range(inp)
  /\ \A i, j \in DOMAIN out :
       i < j =>
         LET ki == C2Key(out[i])
             kj == C2Key(out[j])
         IN  /\ ki[1] < kj[1] \/ (ki[1] = kj[1] /\ ki[2] <= kj[2])
             /\ ki = kj => out[i].start_time < out[j].start_time

\* C2: the sequenced chapters are the extracted chapters in ascending order
\* of the key of the rule table (first matching rule), chapters of equal key
\* in their extraction order.
C2_SequencedByRuleTable ==
  \A n \in DOMAIN splits :
    splits[n].outcome = "split" =>
      C2Sorted(ReadChapters(id3[splits[n].src].frames), splits[n].chapter_info)

\* a file with a title matching two rules, chapters of equal key, and an
\* order that differs from the extraction order
C2_Witness ==
  \E n \in DOMAIN splits :
    LET inp == ReadChapters(id3[splits[n].src].frames)
        out == splits[n].chapter_info
    IN  /\ splits[n].outcome = "split"
        /\ out # inp
        /\ \E i \in DOMAIN out : out[i].title = "Business briefing"
        /\ \E i, j \in DOMAIN out : i < j /\ C2Key(out[i]) = C2Key(out[j])

\* C3: once run_complete_workflow has completed, at most one dated episode
\* directory is in the live tree.
C3_AtMostOneLiveDirectory ==
  pc = "done" => Cardinality(DOMAIN live) <= 1

Newest(folders) ==
  CHOOSE x \in folders : \A y \in folders \ {x} : StrLess(TokenStr(y), TokenStr(x))

\* C4 as claimed: after archive_old_episodes ran with two or more dated
\* directories, exactly one is left in the live tree and every other one is
\* in the archive, also when a relocation failed.
C4_ExactlyOneRemains ==
  (archived.ran /\ DOMAIN archived.outcome # {}) =>
    /\ Cardinality(DOMAIN live) = 1
    /\ \A f \in DOMAIN archived.outcome : f \in DOMAIN arch /\ f \notin DOMAIN live

C4_Post ==
  LET folders == DOMAIN live
      o == archived'.outcome
      failed == { f \in DOMAIN o : o[f] # "moved" }
  IN  Cardinality(folders) >= 2 =>
        /\ DOMAIN o = folders \ { Newest(folders) }
        /\ DOMAIN live' = { Newest(folders) } \cup failed
        /\ \A f \in DOMAIN live' : live'[f] = live[f]
        /\ \A f \in (DOMAIN o) \ failed : f \in DOMAIN arch' /\ arch'[f] = live[f]
        /\ failed = {} => Cardinality(DOMAIN live') = 1

\* C4 as amended: archive_old_episodes, run with two or more dated
\* directories, keeps the one with the greatest token, puts every other one
\* whose relocation did not fail into the archive with the contents it had
\* (replacing a namesake there), and leaves in the live tree, unchanged,
\* every one whose relocation failed; exactly one is left when none failed.
C4_ArchiveRelocates ==
  [][(pc = "archive" /\ archived'.ran /\ ~archived.ran) => C4_Post]_vars

\* one relocation failed and a later one was still done
C4_Witness ==
  /\ archived.ran
  /\ \E f, g \in DOMAIN archived.outcome :
       /\ archived.outcome[f] # "moved"
       /\ archived.outcome[g] = "moved"
       /\ g \in DOMAIN arch

\* the state in which the last call of split_economist_file has returned
AfterReturn == pc \in { "split", "archive" } /\ splits # << >>

NoLiveCopy(src) ==
  /\ src \notin base
  /\ \A t \in DOMAIN live : \A f \in DOMAIN live[t] : live[t][f] # Whole(src)

Archived(r) == r.date \in DOMAIN archOrig /\ archOrig[r.date] = Whole(r.src)

NotArchived(src) == \A d \in DOMAIN archOrig : archOrig[d] # Whole(src)

\* C5 as claimed: when split_economist_file has returned, the original is
\* in the archive as original_<date>.mp3 and nowhere in the live tree, on
\* every path.
C5_OriginalAlwaysArchived ==
  AfterReturn => Archived(Last(splits)) /\ NoLiveCopy(Last(splits).src)

\* C5 as amended: when split_economist_file has returned, the original is
\* no longer in the base folder; if chapters were found and split it is in
\* the archive as original_<date>.mp3 and nowhere in the live tree; if no
\* chapter was found it is in the episode directory under its own name and
\* not in the archive; if reading the tags raised it is in the episode
\* directory as original.mp3 and not in the archive.
C5_OriginalByOutcome ==
  AfterReturn =>
    LET r == Last(splits)
        dir == live[r.date]
    IN  /\ r.src \notin base
        /\ r.outcome = "split" => Archived(r) /\ NoLiveCopy(r.src)
        /\ r.outcome = "nochapters" =>
             /\ BaseName(r.src) \in DOMAIN dir
             /\ dir[BaseName(r.src)] = Whole(r.src)
             /\ OriginalName \notin DOMAIN dir
             /\ NotArchived(r.src)
        /\ r.outcome = "error" =>
             /\ OriginalName \in DOMAIN dir
             /\ dir[OriginalName] = Whole(r.src)
             /\ NotArchived(r.src)

\* a file was split, then a file without chapters was handled
C5_Witness ==
  /\ AfterReturn
  /\ Len(splits) = 2
  /\ splits[1].outcome = "split"
  /\ splits[2].outcome = "nochapters"

\* C6: the feed written has exactly one item per .mp3 file of the dated
\* directories of the live tree, directories in descending order of their
\* tokens and, within a directory, the segment files in ascending order of
\* their output indices.
C6_FeedListsFilesInIndexOrder ==
  feed.gen > 0 =>
    /\ Len(feed.items) = Cardinality(LiveMp3s)
    /\ { << feed.items[k].folder, feed.items[k].file >> : k \in DOMAIN feed.items } = LiveMp3s
    /\ \A p, q \in DOMAIN feed.items :
         p < q =>
           LET a == feed.items[p]
               b == feed.items[q]
           IN  /\ a.folder = b.folder \/ StrLess(TokenStr(b.folder), TokenStr(a.folder))
               /\ (a.folder = b.folder /\ a.file[1] = "segment" /\ b.file[1] = "segment")
                    => a.file[2] <= b.file[2]

\* C7 as claimed: generate_rss_feed run again on the unchanged tree, at any
\* clock time, writes the document it wrote before.
C7_FeedIgnoresClock ==
  feed.gen > 0 => \A t \in Days : FeedItems(live, t) = feed.items

AllListedDated == \A f \in DOMAIN live : IsDate(f) \/ FeedFiles(live[f]) = {}

\* C7 as amended: generate_rss_feed run again on the unchanged tree, at any
\* clock time, writes the document it wrote before, provided the token of
\* every dated directory holding .mp3 files parses as a date; the items of a
\* directory whose token does not parse carry the clock time of the run.
C7_FeedIgnoresClockWhenDated ==
  feed.gen > 0 =>
    /\ AllListedDated => \A t \in Days : FeedItems(live, t) = feed.items
    /\ \A k \in DOMAIN feed.items :
         ~IsDate(feed.items[k].folder) =>
           \A t \in Days : FeedItems(live, t)[k].pubDate = << "now", t >>

\* a feed of several items over directories that all carry dates
C7_Witness ==
  /\ feed.gen > 0
  /\ Len(feed.items) >= 2
  /\ AllListedDated
  /\ Cardinality(DOMAIN live) >= 2

C8_State ==
  /\ feed.gen > 0 =>
       /\ queue = << >>
       /\ Len(splits) = Len(mp3_files)
       /\ mp3_files # << >> => archived.ran
  /\ (gitOps \/ InGitPush) => feed.gen = 1

C8_Step ==
  feed.gen > 0 =>
    /\ live' = live /\ arch' = arch /\ archOrig' = archOrig /\ base' = base
    /\ feed' = feed

\* C8: every source file is split and the old episodes are archived before
\* generate_rss_feed writes the feed, the feed is written before the first
\* git command is attempted, and nothing that happens from then on, a
\* failure or a crash inside git_push included, changes the feed or a file
\* of the tree.
C8_StagesInOrder == []C8_State /\ [][C8_Step]_vars

\* the run was killed inside git_push after a git command, two files split
C8_Witness ==
  /\ pc = "crashed"
  /\ gitOps
  /\ Len(splits) = 2
  /\ feed.items # << >>

Failed == \E n \in DOMAIN splits : splits[n].outcome = "error"

\* C9: once split_economist_file has failed on a file, the run still calls
\* it on every remaining file, then runs archive_old_episodes, writes the
\* feed and attempts git_push; no stage is skipped, and before git_push
\* the run is always at a stage whose step can be taken.
C9_FailureDoesNotAbort ==
  Failed =>
    /\ \A n \in DOMAIN splits : splits[n].src = mp3_files[n]
    /\ pc # "split" => Len(splits) = Len(mp3_files)
    /\ pc \notin { "split", "archive" } => archived.ran
    /\ pc \notin { "split", "archive", "feed" } => feed.gen = 1
    /\ pc = "done" => gitOps
    /\ pc = "split" => queue # << >>
    /\ pc \in { "split", "archive", "feed", "git_rm", "git_add", "git_commit",
                "git_push", "done", "crashed" }

\* the first file failed, the second was split, and the run came to its end
C9_Witness ==
  /\ pc = "done"
  /\ Len(splits) = 2
  /\ splits[1].outcome = "error"
  /\ splits[2].outcome = "split"
  /\ gitOps

\* C10: a later call of split_economist_file in the same run leaves what an
\* earlier call produced as it is: the archived original, the segment files
\* and the manifest of the earlier source file.
C10_LaterKeepsEarlier ==
  [][(pc = "split" /\ splits # << >> /\ Len(splits') > Len(splits)
        /\ Last(splits').outcome = "split") =>
       \A n \in DOMAIN splits :
         splits[n].outcome = "split" =>
           LET r == splits[n]
               made == { SummaryName } \cup
                       { r.chapter_files[k].name : k \in DOMAIN r.chapter_files }
           IN  /\ \E d \in DOMAIN archOrig' : archOrig'[d] = Whole(r.src)
               /\ \A f \in made :
                    (f \in DOMAIN live[r.date] /\ live[r.date][f].src = r.src)
                      => (f \in DOMAIN live'[r.date] /\ live'[r.date][f] = live[r.date][f])
     ]_vars

=============================================================================
